---- MODULE Spec2Model ----
(***************************************************************************)
(* Model of univariate_outlier_detection.py: detect_univariate_outliers    *)
(* with its helpers make_boolean_column and replace_outliers.              *)
(*                                                                         *)
(* Numbers.  A cell is either NaN (the missing marker) or <<n>>, a number  *)
(* held exactly as the integer n in units of 1/Unit.  Unit is chosen so    *)
(* that every median (a division by 2), every MAD (a multiplication by the *)
(* consistency factor MadScaleNum/MadScaleDen) and every product with the  *)
(* threshold (held in halves) of a first call, and of a second call on     *)
(* the first call's replaced table, is an integer: no rounding is hidden.  *)
(***************************************************************************)
EXTENDS Integers, Sequences, FiniteSets, TLC

\* largest integer observation of the input tables
MaxVal == 2

\* scipy's norm.ppf(3/4) = 0.6745 is the default c of robust.scale.mad; the
\* median of absolute deviations is divided by it, i.e. multiplied by 1.483
MadScaleNum == 1483
MadScaleDen == 1000

\* 2 (median) * 2 (median of deviations) * MadScaleDen * 2 (threshold halves)
FirstCallUnit == 2 * 2 * MadScaleDen * 2
Unit == FirstCallUnit * FirstCallUnit

NaN == <<>>
Num(n) == <<n>>
IsNaN(a) == a = NaN

\* column names and row labels of the caller's tables
Columns == <<"x", "y">>
ColNames == {Columns[i] : i \in 1..Len(Columns)}
PlainIndex == <<"r1", "r2", "r3">>
ClashIndex == <<"r1", "upper", "lower">>
Indexes == {PlainIndex, ClashIndex}
\* the cells of column x: missing, or an integer observation 0..MaxVal;
\* column y holds missing cells and the two extreme observations only
Cells == {NaN} \cup {Num(v * Unit) : v \in 0..MaxVal}
ExtremeCells == {NaN, Num(0), Num(MaxVal * Unit)}
\* thresholds in halves: -1, 0, 0.5, 2, 2.5 (2.5 is the default of line 54)
Thresholds == {-2, 0, 1, 4, 5}

NoTable == [index |-> <<>>, data |-> [c \in ColNames |-> <<>>]]

-----------------------------------------------------------------------------
(* IEEE comparisons and arithmetic: every comparison with NaN is false,    *)
(* every sum with NaN is NaN.                                              *)
Gt(a, b) == ~IsNaN(a) /\ ~IsNaN(b) /\ a[1] > b[1]
Lt(a, b) == ~IsNaN(a) /\ ~IsNaN(b) /\ a[1] < b[1]
Le(a, b) == ~IsNaN(a) /\ ~IsNaN(b) /\ a[1] <= b[1]
Ge(a, b) == ~IsNaN(a) /\ ~IsNaN(b) /\ a[1] >= b[1]
Add(a, b) == IF IsNaN(a) \/ IsNaN(b) THEN NaN ELSE Num(a[1] + b[1])
Sub(a, b) == IF IsNaN(a) \/ IsNaN(b) THEN NaN ELSE Num(a[1] - b[1])
\* threshold * m, the threshold t2 being held in halves
TimesThreshold(t2, m) == IF IsNaN(m) THEN NaN ELSE Num((m[1] \div 2) * t2)

Abs(n) == IF n < 0 THEN -n ELSE n

RECURSIVE Insert(_, _)
Insert(s, n) ==
    IF s = <<>> THEN <<n>>
    ELSE IF n <= Head(s) THEN <<n>> \o s
    ELSE <<Head(s)>> \o Insert(Tail(s), n)

RECURSIVE Sort(_)
Sort(s) == IF s = <<>> THEN <<>> ELSE Insert(Sort(Tail(s)), Head(s))

\* numpy.median of a sequence of integers (no NaN in it): NaN when empty,
\* the middle of the sorted values, or the mean of the two middle ones
NpMedian(s) ==
    LET n == Len(s)
        srt == Sort(s)
    IN  IF n = 0 THEN NaN
        ELSE IF n % 2 = 1 THEN Num(srt[(n + 1) \div 2])
        ELSE Num((srt[n \div 2] + srt[n \div 2 + 1]) \div 2)

\* the numbers of a column, missing cells skipped, as integers
Present(col) ==
    LET keep == SelectSeq(col, LAMBDA a : ~IsNaN(a))
    IN  [i \in 1..Len(keep) |-> keep[i][1]]

\* df[[col]].dropna(): the column alone, its own missing rows dropped
DropNaAnyColumn(t, c) ==
    LET rows == {i \in 1..Len(t.index) : \A d \in ColNames : ~IsNaN(t.data[d][i])}
        keep == SelectSeq([i \in 1..Len(t.index) |-> <<i, t.data[c][i]>>],
                          LAMBDA p : p[1] \in rows)
    IN  [i \in 1..Len(keep) |-> keep[i][2][1]]
DropNaColumn(t, c) == Present(t.data[c])

\* statsmodels robust.scale.mad: median(|a - median(a)|) / c
MadAroundZero(s) ==
    IF Len(s) = 0 THEN NaN
    ELSE LET dev == NpMedian([i \in 1..Len(s) |-> Abs(s[i])])
         IN  Num((dev[1] \div MadScaleDen) * MadScaleNum)
Mad(s) ==
    LET center == NpMedian(s)
    IN  IF IsNaN(center) THEN NaN
        ELSE LET dev == NpMedian([i \in 1..Len(s) |-> Abs(s[i] - center[1])])
             IN  Num((dev[1] \div MadScaleDen) * MadScaleNum)

\* line 78: one MAD per column
MadValues(t) == [c \in ColNames |-> Mad(DropNaColumn(t, c))]
\* line 84: DataFrame.median skips the missing cells of each column
MedianRow(t) == [c \in ColNames |-> NpMedian(Present(t.data[c]))]
\* lines 88-92
Upper(med, madv, t2) == [c \in ColNames |-> Add(med[c], TimesThreshold(t2, madv[c]))]
Lower(med, madv, t2) == [c \in ColNames |-> Sub(med[c], TimesThreshold(t2, madv[c]))]

-----------------------------------------------------------------------------
\* DataFrame.append of the rows 'upper' and 'lower' (line 102)
AppendRows(t, up, lo) ==
    [index |-> t.index \o <<"upper", "lower">>,
     data  |-> [c \in ColNames |-> t.data[c] \o <<up[c], lo[c]>>]]

\* DataFrame.drop(['upper', 'lower']): every row carrying one of the labels
DropRowsForgotten(t, labels) == t
DropRows(t, labels) ==
    LET keep == SelectSeq([i \in 1..Len(t.index) |-> i],
                          LAMBDA i : t.index[i] \notin labels)
    IN  [index |-> [k \in 1..Len(keep) |-> t.index[keep[k]]],
         data  |-> [c \in ColNames |-> [k \in 1..Len(keep) |-> t.data[c][keep[k]]]]]

\* col.loc[label] is a scalar only when exactly one row carries the label
LocIsScalar(index, label) == Cardinality({i \in 1..Len(index) : index[i] = label}) = 1
Loc(index, col, label) == col[CHOOSE i \in 1..Len(index) : index[i] = label]

\* make_boolean_column (line 22) on one column of temp_df
make_boolean_column_ge(index, col) ==
    [i \in 1..Len(col) |-> Ge(col[i], Loc(index, col, "upper"))
                           \/ Lt(col[i], Loc(index, col, "lower"))]
make_boolean_column(index, col) ==
    [i \in 1..Len(col) |-> Gt(col[i], Loc(index, col, "upper"))
                           \/ Lt(col[i], Loc(index, col, "lower"))]

\* Series.where(cond, other): keep where cond holds, else other
Where(col, cond, other) == [i \in 1..Len(col) |-> IF cond[i] THEN col[i] ELSE other]

\* replace_outliers (lines 37-52) on one column of temp_df
replace_outliers_no_restore(index, col) ==
    LET upperThresh == Loc(index, col, "upper")
        c1 == Where(col, [i \in 1..Len(col) |-> Le(col[i], upperThresh)], upperThresh)
        lowerThresh == Loc(index, c1, "lower")
    IN  Where(c1, [i \in 1..Len(col) |-> Ge(c1[i], lowerThresh)], lowerThresh)
replace_outliers_upper_only(index, col) ==
    LET nan_col == [i \in 1..Len(col) |-> IsNaN(col[i])]
        upperThresh == Loc(index, col, "upper")
        c1 == Where(col, [i \in 1..Len(col) |-> Le(col[i], upperThresh)], upperThresh)
    IN  Where(c1, [i \in 1..Len(col) |-> nan_col[i] = FALSE], NaN)
replace_outliers(index, col) ==
    LET nan_col == [i \in 1..Len(col) |-> IsNaN(col[i])]
        upperThresh == Loc(index, col, "upper")
        c1 == Where(col, [i \in 1..Len(col) |-> Le(col[i], upperThresh)], upperThresh)
        lowerThresh == Loc(index, c1, "lower")
        c2 == Where(c1, [i \in 1..Len(col) |-> Ge(c1[i], lowerThresh)], lowerThresh)
    IN  Where(c2, [i \in 1..Len(col) |-> nan_col[i] = FALSE], NaN)

\* temp_df.apply(make_boolean_column), temp_df.apply(replace_outliers): the
\* function on every column
ApplyMakeBoolean(t) ==
    [index |-> t.index, data |-> [c \in ColNames |-> make_boolean_column(t.index, t.data[c])]]
ApplyReplace(t) ==
    [index |-> t.index, data |-> [c \in ColNames |-> replace_outliers(t.index, t.data[c])]]

-----------------------------------------------------------------------------
(* The state: the objects of the Python heap (the caller's DataFrame and   *)
(* the one DataFrame.append allocates), the arguments and locals of the    *)
(* running call, and what the caller keeps of its calls.                   *)
VARIABLES
    heap,         \* object id -> table
    temp_df,      \* the object the local temp_df names, "none" before line 102
    threshold,    \* argument, in halves
    replace,      \* argument
    pc,           \* position in detect_univariate_outliers
    mad,          \* the local mad: rows 'mad', 'median', 'upper', 'lower'
    outlier_df,   \* the local outlier_df, NoTable before line 103
    replaced_df,  \* the local replaced_df, NoTable before line 107
    result,       \* "none", "mask", "mask+replaced" or the exception raised
    input,        \* the table as the caller passed it
    phase,        \* "first", or what the caller's second call repeats
    prev          \* the caller's copy of the first call's arguments and results

vars == <<heap, temp_df, threshold, replace, pc, mad, outlier_df, replaced_df,
          result, input, phase, prev>>

NoStats == [r \in {"mad", "median", "upper", "lower"} |-> [c \in ColNames |-> NaN]]
NoPrev == [table |-> NoTable, mask |-> NoTable, replaced |-> NoTable]
Sentinels == {"upper", "lower"}

\* the order of the statements of detect_univariate_outliers
NextPcReplaceFirst(p, rep) ==
    CASE p = "thresholds" -> "append"
      [] p = "append"     -> IF rep THEN "replace" ELSE "flag"
      [] p = "replace"    -> "flag"
      [] p = "flag"       -> "return"
      [] OTHER            -> "done"
NextPcAlwaysReplace(p, rep) ==
    CASE p = "thresholds" -> "append"
      [] p = "append"     -> "flag"
      [] p = "flag"       -> "replace"
      [] p = "replace"    -> "return"
      [] OTHER            -> "done"
NextPc(p, rep) ==
    CASE p = "thresholds" -> "append"
      [] p = "append"     -> "flag"
      [] p = "flag"       -> IF rep THEN "replace" ELSE "return"
      [] p = "replace"    -> "return"
      [] OTHER            -> "done"

\* DataFrame.append returns a new object and leaves its receiver alone
AppendInPlace(ref) == ref
AppendTarget(ref) == "fresh"

Tables == {[index |-> idx, data |-> [c \in ColNames |-> IF c = "x" THEN x ELSE y]] :
             idx \in Indexes, x \in [1..3 -> Cells], y \in [1..3 -> ExtremeCells]}

Init ==
    /\ \E t \in Tables :
          /\ heap = [o \in {"caller", "fresh"} |-> IF o = "caller" THEN t ELSE NoTable]
          /\ input = t
    /\ temp_df = "none"
    /\ threshold \in Thresholds
    /\ replace \in BOOLEAN
    /\ pc = "thresholds"
    /\ mad = NoStats
    /\ outlier_df = NoTable
    /\ replaced_df = NoTable
    /\ result = "none"
    /\ phase = "first"
    /\ prev = NoPrev

\* lines 78-97: MAD, median and the rejection thresholds of every column
ComputeThresholdsValidating ==
    /\ pc = "thresholds"
    /\ IF threshold <= 0
       THEN /\ result' = "InvalidInput"
            /\ pc' = "done"
            /\ UNCHANGED mad
       ELSE /\ LET df == heap["caller"]
                   m  == MadValues(df)
                   md == MedianRow(df)
               IN  mad' = [r \in {"mad", "median", "upper", "lower"} |->
                             CASE r = "mad"    -> m
                               [] r = "median" -> md
                               [] r = "upper"  -> Upper(md, m, threshold)
                               [] OTHER        -> Lower(md, m, threshold)]
            /\ pc' = NextPc(pc, replace)
            /\ UNCHANGED result
    /\ UNCHANGED <<heap, temp_df, threshold, replace, outlier_df, replaced_df,
                   input, phase, prev>>
ComputeThresholds ==
    /\ pc = "thresholds"
    /\ LET df == heap["caller"]
           m  == MadValues(df)
           md == MedianRow(df)
       IN  mad' = [r \in {"mad", "median", "upper", "lower"} |->
                     CASE r = "mad"    -> m
                       [] r = "median" -> md
                       [] r = "upper"  -> Upper(md, m, threshold)
                       [] OTHER        -> Lower(md, m, threshold)]
    /\ pc' = NextPc(pc, replace)
    /\ UNCHANGED <<heap, temp_df, threshold, replace, outlier_df, replaced_df,
                   result, input, phase, prev>>

\* line 102: temp_df = df.append(mad.loc[['upper', 'lower'], :])
AppendThresholds ==
    /\ pc = "append"
    /\ temp_df' = AppendTarget("caller")
    /\ heap' = [heap EXCEPT ![AppendTarget("caller")] =
                   AppendRows(heap["caller"], mad["upper"], mad["lower"])]
    /\ pc' = NextPc(pc, replace)
    /\ UNCHANGED <<threshold, replace, mad, outlier_df, replaced_df, result,
                   input, phase, prev>>

\* col.loc['upper'] or col.loc['lower'] is a Series when the caller's table has
\* a row of that label: the comparison of line 22 and the .item() of
\* lines 41 and 46 raise ValueError
LocRaises(t) == ~(LocIsScalar(t.index, "upper") /\ LocIsScalar(t.index, "lower"))

Raise ==
    /\ result' = "ValueError"
    /\ pc' = "done"
    /\ heap' = IF temp_df = "fresh" THEN [heap EXCEPT !["fresh"] = NoTable] ELSE heap
    /\ UNCHANGED <<temp_df, threshold, replace, mad, outlier_df, replaced_df,
                   input, phase, prev>>

\* line 103: outlier_df = temp_df.apply(make_boolean_column).drop(['upper', 'lower'])
FlagOutliers ==
    /\ pc = "flag"
    /\ IF LocRaises(heap[temp_df])
       THEN Raise
       ELSE /\ outlier_df' = DropRows(ApplyMakeBoolean(heap[temp_df]), Sentinels)
            /\ pc' = NextPc(pc, replace)
            /\ UNCHANGED <<heap, temp_df, threshold, replace, mad, replaced_df,
                           result, input, phase, prev>>

\* line 107: replaced_df = temp_df.apply(replace_outliers).drop(['upper', 'lower']).
\* replace_outliers writes into the column it is handed; whether that column
\* is a view of temp_df or a copy depends on the pandas version, so temp_df
\* is either written through or left as it was.
ReplaceOutliers ==
    /\ pc = "replace"
    /\ IF LocRaises(heap[temp_df])
       THEN Raise
       ELSE LET out == ApplyReplace(heap[temp_df])
            IN  /\ replaced_df' = DropRows(out, Sentinels)
                /\ heap' \in {heap, [heap EXCEPT ![temp_df] = out]}
                /\ pc' = NextPc(pc, replace)
                /\ UNCHANGED <<temp_df, threshold, replace, mad, outlier_df,
                               result, input, phase, prev>>

\* lines 108 and 110; the local temp_df dies with the call
Return ==
    /\ pc = "return"
    /\ result' = IF replace THEN "mask+replaced" ELSE "mask"
    /\ pc' = NextPc(pc, replace)
    /\ heap' = IF temp_df = "fresh" THEN [heap EXCEPT !["fresh"] = NoTable] ELSE heap
    /\ UNCHANGED <<temp_df, threshold, replace, mad, outlier_df, replaced_df,
                   input, phase, prev>>

\* the caller starts a second call with the arguments (t, rep), keeping the
\* first call's table and results
CallAgain(t, rep, ph) ==
    /\ pc = "done"
    /\ phase = "first"
    /\ result = "mask+replaced"
    /\ prev' = [table |-> input, mask |-> outlier_df, replaced |-> replaced_df]
    /\ heap' = [heap EXCEPT !["caller"] = t]
    /\ input' = t
    /\ replace' = rep
    /\ phase' = ph
    /\ pc' = "thresholds"
    /\ temp_df' = "none"
    /\ mad' = NoStats
    /\ outlier_df' = NoTable
    /\ replaced_df' = NoTable
    /\ result' = "none"
    /\ UNCHANGED threshold

\* detect_univariate_outliers(R, threshold) on the replaced table R
CallOnReplaced == CallAgain(replaced_df, TRUE, "onReplaced")
\* detect_univariate_outliers(df, threshold, replace=False) on the same table
CallMaskOnly == CallAgain(input, FALSE, "maskOnly")

Next ==
    \/ ComputeThresholds
    \/ AppendThresholds
    \/ FlagOutliers
    \/ ReplaceOutliers
    \/ Return
    \/ CallOnReplaced
    \/ CallMaskOnly

Spec == Init /\ [][Next]_vars

-----------------------------------------------------------------------------
(* Vocabulary of the properties.  A call has returned when it is done      *)
(* without an exception.  The statistics are restated by rank, without a   *)
(* sort: the k-th smallest of s is the value with fewer than k values      *)
(* below it and at least k values at or below it.                          *)
Done == pc = "done"
Returned == Done /\ result \in {"mask", "mask+replaced"}
Rows == 1..Len(input.index)
SameShape(t) ==
    /\ t.index = input.index
    /\ DOMAIN t.data = ColNames
    /\ \A c \in ColNames : Len(t.data[c]) = Len(input.index)
AnyFlag(t) == \E c \in ColNames : \E r \in 1..Len(t.data[c]) : t.data[c][r] = TRUE

\* the rows of input column c that hold a number, and the number of row r
ObservedRows(c) == {r \in Rows : ~IsNaN(input.data[c][r])}
Observation(c, r) == input.data[c][r][1]
\* the k-th smallest of the numbers f[r], r in rs
KthSmallest(rs, f, k) ==
    CHOOSE v \in {f[r] : r \in rs} :
        /\ Cardinality({r \in rs : f[r] < v}) < k
        /\ k <= Cardinality({r \in rs : f[r] <= v})
\* twice the median of the numbers f[r], r in rs, rs not empty
TwiceMedian(rs, f) ==
    LET n == Cardinality(rs)
    IN  KthSmallest(rs, f, (n + 1) \div 2) + KthSmallest(rs, f, n \div 2 + 1)
RankMedian(c) ==
    LET rs == ObservedRows(c)
    IN  TwiceMedian(rs, [r \in rs |-> Observation(c, r)]) \div 2
\* MAD: the median of |x - median|, times the consistency factor
RankMad(c) ==
    LET rs == ObservedRows(c)
        m == RankMedian(c)
        dev == [r \in rs |-> Abs(Observation(c, r) - m)]
    IN  ((TwiceMedian(rs, dev) \div 2) \div MadScaleDen) * MadScaleNum
\* threshold x MAD, the threshold being held in halves
ThresholdTimesMad(c) == (RankMad(c) \div 2) * threshold

\* C1: in a call that has returned, a cell of the mask is true exactly when
\* the input cell is present and lies strictly above the column's upper bound
\* or strictly below its lower bound; a missing cell and a cell equal to a
\* bound are not flagged.
C1_MaskIffBeyondBounds ==
    Returned =>
        /\ SameShape(outlier_df)
        /\ \A c \in ColNames : \A r \in Rows :
              LET v == input.data[c][r]
                  up == mad["upper"][c]
                  lo == mad["lower"][c]
                  flag == outlier_df.data[c][r]
              IN  /\ flag \in BOOLEAN
                  /\ flag <=> /\ v # NaN
                              /\ \/ (up # NaN /\ v[1] > up[1])
                                 \/ (lo # NaN /\ v[1] < lo[1])
                  /\ v = NaN => flag = FALSE
                  /\ (v = up \/ v = lo) => flag = FALSE

C1_Witness ==
    /\ Returned
    /\ AnyFlag(outlier_df)
    /\ \E c \in ColNames : \E r \in Rows : input.data[c][r] = NaN
    /\ \E c \in ColNames : \E r \in Rows :
          input.data[c][r] # NaN /\ input.data[c][r] = mad["upper"][c]

\* the replaced table cell by cell, as C2 states it
ReplacedAsStated ==
    /\ SameShape(replaced_df)
    /\ \A c \in ColNames : \A r \in Rows :
          LET v == input.data[c][r]
              up == mad["upper"][c]
              lo == mad["lower"][c]
              out == replaced_df.data[c][r]
          IN  /\ out = NaN <=> v = NaN
              /\ v # NaN =>
                    /\ up # NaN /\ lo # NaN /\ out # NaN
                    /\ v[1] > up[1] => out = up
                    /\ v[1] < lo[1] => out = lo
                    /\ (lo[1] <= v[1] /\ v[1] <= up[1]) => out = v
                    /\ lo[1] <= out[1] /\ out[1] <= up[1]

C5_CallerTableUnchanged == heap["caller"] = input

C5_Witness ==
    /\ Returned /\ replace
    /\ replaced_df # input
    /\ heap["caller"] = input

\* C6: once the thresholds are computed, the bounds of a column are
\* median +/- threshold x MAD of the non-missing values of that column alone
\* (all NaN when the column has none).
C6_BoundsFromOwnColumn ==
    (pc # "thresholds") =>
        \A c \in ColNames :
            IF ObservedRows(c) = {}
            THEN mad["upper"][c] = NaN /\ mad["lower"][c] = NaN
            ELSE /\ mad["median"][c] = Num(RankMedian(c))
                 /\ mad["mad"][c] = Num(RankMad(c))
                 /\ mad["upper"][c] = Num(RankMedian(c) + ThresholdTimesMad(c))
                 /\ mad["lower"][c] = Num(RankMedian(c) - ThresholdTimesMad(c))

\* a column with a missing cell in a row where the other column has a value,
\* and a positive MAD of its own
C6_Witness ==
    /\ Returned
    /\ \E c, d \in ColNames : \E r \in Rows :
          /\ c # d
          /\ input.data[d][r] = NaN
          /\ input.data[c][r] # NaN
          /\ mad["mad"][c] # NaN /\ mad["mad"][c][1] > 0
          /\ mad["mad"][d] # NaN /\ mad["mad"][d][1] > 0
          /\ mad["upper"][c] # mad["upper"][d]

\* C7: a returned mask, and a returned replaced table, have the row labels
\* of the input in the input's order, the input's column names and one cell
\* per input cell; no row of the sentinel labels is in them.
C7_OutputsShapedAsInput ==
    Returned =>
        /\ SameShape(outlier_df)
        /\ \A i \in 1..Len(outlier_df.index) : outlier_df.index[i] \notin Sentinels
        /\ replace =>
              /\ SameShape(replaced_df)
              /\ \A i \in 1..Len(replaced_df.index) : replaced_df.index[i] \notin Sentinels

C7_Witness ==
    /\ Returned /\ replace
    /\ Len(input.index) = 3
    /\ outlier_df.index = <<"r1", "r2", "r3">>
    /\ replaced_df.index = <<"r1", "r2", "r3">>

\* C8: a column with one non-missing value, or with all non-missing values
\* equal, has MAD 0; a column of MAD 0 has upper = lower = median, a value of
\* it is flagged exactly when it differs from the median, and when all its
\* values are equal nothing is flagged and the replaced column is the input.
C8_ZeroMad ==
    (pc # "thresholds") =>
        \A c \in ColNames :
            LET rs == ObservedRows(c)
                equal == rs # {} /\ \A i, j \in rs : input.data[c][i] = input.data[c][j]
            IN  /\ equal => mad["mad"][c] = Num(0)
                /\ mad["mad"][c] = Num(0) =>
                      /\ mad["upper"][c] = mad["median"][c]
                      /\ mad["lower"][c] = mad["median"][c]
                      /\ Returned =>
                            /\ SameShape(outlier_df)
                            /\ \A r \in Rows :
                                  outlier_df.data[c][r] <=>
                                      /\ input.data[c][r] # NaN
                                      /\ input.data[c][r] # mad["median"][c]
                            /\ equal => /\ \A r \in Rows : outlier_df.data[c][r] = FALSE
                                        /\ replace => replaced_df.data[c] = input.data[c]

\* a column of MAD 0 with a flagged value, next to an all-equal column
C8_Witness ==
    /\ Returned /\ replace /\ threshold = 5
    /\ mad["mad"]["x"] = Num(0)
    /\ \E r \in Rows : outlier_df.data["x"][r] = TRUE
    /\ \A r \in Rows : input.data["y"][r] = Num(MaxVal * Unit)

\* C9: a call that returns returns the mask, and the replaced table with it
\* exactly when replace is true; with replace false the replacement stage is
\* never entered and no replaced table exists.
C9_ReplacedExactlyWhenAsked ==
    /\ pc = "replace" => replace
    /\ ~replace => replaced_df = NoTable
    /\ Returned =>
          /\ SameShape(outlier_df)
          /\ result = "mask+replaced" <=> replace
          /\ result = "mask" <=> ~replace
          /\ replace => SameShape(replaced_df)

C9_Witness ==
    /\ Returned /\ ~replace /\ phase = "first"
    /\ result = "mask"
    /\ AnyFlag(outlier_df)
    /\ replaced_df = NoTable

\* C10: the mask of a call with replace = false is the mask the call with
\* replace = true returned for the same table and threshold.
C10_MaskSameWithAndWithoutReplace ==
    (Returned /\ phase = "maskOnly") =>
        /\ input = prev.table
        /\ ~replace
        /\ outlier_df = prev.mask

C10_Witness ==
    /\ Returned /\ phase = "maskOnly"
    /\ AnyFlag(prev.mask)
    /\ prev.replaced # prev.table
    /\ outlier_df = prev.mask

====
